---- MODULE Spec2Model ----
(***************************************************************************)
(* Model of the ingress path of the orderflow proxy (proxy/api.go): the    *)
(* five JSON-RPC methods on the public and the local surface, signer       *)
(* validation against the peer set, request deduplication and the two      *)
(* cancellation-aware queue sends.                                          *)
(***************************************************************************)
EXTENDS Integers, Sequences, FiniteSets, TLC

\* ------------------------------------------------------------------ bounds
QueueCap == 1             \* capacity of shareQueue and of archiveQueue
LRUSize == 1              \* capacity of requestUniqueKeysRLU

\* --------------------------------------------------------------- constants
FlashbotsPeerName == "flashbots"
EthSendBundleMethod == "eth_sendBundle"
MevSendBundleMethod == "mev_sendBundle"
EthCancelBundleMethod == "eth_cancelBundle"
EthSendRawTransactionMethod == "eth_sendRawTransaction"
BidSubsidiseBlockMethod == "bid_subsidiseBlock"

FlashbotsSignerAddress == "0xFLASHBOTS"

errUnknownPeer == "UnknownPeer"
errSubsidyWrongEndpoint == "SubsidyWrongEndpoint"
errSubsidyWrongCaller == "SubsidyWrongCaller"
errValidation == "ValidationFailed"
Success == "nil"
Pending == "pending"

Nil == "none"
NoKey == <<>>             \* requestArgUniqueKey == nil

\* ------------------------------------------------------------ input sets
Handlers == {1, 2}         \* concurrent ingress handlers, one request each
PeerA == [Name |-> "peerA", EcdsaPubkeyAddress |-> "0xPEER_A"]
PeerB == [Name |-> "peerB", EcdsaPubkeyAddress |-> "0xPEER_B"]
PeerLists == {<<PeerA>>, <<PeerA, PeerB>>}
PeerNames == {"", FlashbotsPeerName, PeerA.Name, PeerB.Name}
Signers == {FlashbotsSignerAddress, PeerB.EcdsaPubkeyAddress}
SuppliedSigners == {Nil, "0xOTHER"}
Bodies == {"b1"}

\* Arguments of a call: the content the fingerprint is taken over, the signer
\* field the caller put in the payload (signing_address, or metadata.signer
\* for mev_sendBundle) and whether the payload passes semantic validation.
SignedArgs == [body : Bodies, signerField : SuppliedSigners, valid : {TRUE}]
              \cup [body : Bodies, signerField : {Nil}, valid : {FALSE}]
PlainArgs == [body : Bodies, signerField : {Nil}, valid : {TRUE}]

VARIABLES
    lastFetchedPeers,       \* prx.lastFetchedPeers
    peersMu,                \* prx.peersMu: readers holding it, writer waiting
    requestUniqueKeysRLU,   \* prx.requestUniqueKeysRLU, least recent first
    shareQueue,             \* prx.shareQueue
    archiveQueue,           \* prx.archiveQueue
    duplicateRequestsByPeer,\* metric of incAPIDuplicateRequestsByPeer
    pc,                     \* position of each handler
    call,                   \* parameters each handler was called with
    parsedRequest,          \* the handler's ParsedRequest
    ctxDone,                \* the handler's ctx.Done() has fired
    ret,                    \* what the handler returned
    lruAdded,               \* handlers that called requestUniqueKeysRLU.Add
    shareSent,              \* handlers whose request was sent on shareQueue
    archiveSent             \* handlers whose request was sent on archiveQueue

\* StartReceiverServers and ReceiverProxyServers.Stop (proxy/servers.go)
VARIABLES
    srv,                    \* each server goroutine: where it is
    srvClosed,              \* http.Server.Close was called on the server
    errCh,                  \* goroutines blocked in errCh <- err, first first
    mainPc,                 \* position of StartReceiverServers
    startErr,               \* the server whose error StartReceiverServers returned
    loggerOn,               \* the goroutine that logs errCh is running
    logged,                 \* servers whose error was logged
    stopPc,                 \* statements of Stop already executed
    queuesClosed            \* proxy.Stop() closed the two queues

\* BlockNumberSource
VARIABLES
    cacheMu,                \* bs.cacheMu: readers holding it, writer holding it
    cacheTimestamp,         \* bs.cacheTimestamp
    cachedNumber,           \* bs.cachedNumber
    now,                    \* the clock, in seconds
    upstream,               \* block number the upstream would answer
    bpc,                    \* position of each caller of BlockNumber
    numberHex,              \* the caller's result of eth_blockNumber
    bret                    \* what BlockNumber last returned to the caller

proxyVars == <<lastFetchedPeers, peersMu, requestUniqueKeysRLU, shareQueue, archiveQueue,
               duplicateRequestsByPeer, pc, call, parsedRequest, ctxDone, ret,
               lruAdded, shareSent, archiveSent>>
serverVars == <<srv, srvClosed, errCh, mainPc, startErr, loggerOn, logged, stopPc,
                queuesClosed>>
blockVars == <<cacheMu, cacheTimestamp, cachedNumber, now, upstream, bpc, numberHex, bret>>

vars == <<lastFetchedPeers, peersMu, requestUniqueKeysRLU, shareQueue, archiveQueue,
          duplicateRequestsByPeer, pc, call, parsedRequest, ctxDone, ret,
          lruAdded, shareSent, archiveSent, serverVars, blockVars>>

\* ------------------------------------------------ servers: sets and Init
Servers == {"publicServer", "localServer", "certServer"}
NoServer == "none"

ServerInit ==
    /\ srv = [s \in Servers |-> "new"]
    /\ srvClosed = [s \in Servers |-> FALSE]
    /\ errCh = <<>>
    /\ mainPc = "start"
    /\ startErr = NoServer
    /\ loggerOn = FALSE
    /\ logged = {}
    /\ stopPc = 0
    /\ queuesClosed = FALSE

\* ------------------------------------- BlockNumberSource: sets and Init
MaxTime == 5              \* the clock stops here
MaxBlock == 3             \* the upstream chain stops growing here
CacheTTL == 3             \* time.Second*3
Callers == {1, 2}          \* concurrent callers of BlockNumber
ZeroTime == 0 - CacheTTL - 1   \* time.Time{}: further back than any TTL
NoReturn == [err |-> FALSE, number |-> 0 - 1]

BlockInit ==
    /\ cacheMu = [readers |-> 0, writer |-> FALSE]
    /\ cacheTimestamp = ZeroTime
    /\ cachedNumber = 0
    /\ now = 0
    /\ upstream = 1
    /\ bpc = [c \in Callers |-> "idle"]
    /\ numberHex = [c \in Callers |-> 0]
    /\ bret = [c \in Callers |-> NoReturn]

NoCall == [method |-> Nil, publicEndpoint |-> FALSE, signer |-> Nil,
           args |-> [body |-> Nil, signerField |-> Nil, valid |-> TRUE]]

\* type ParsedRequest struct
ParsedRequest(h, publicEndpoint, method, args) ==
    [id |-> h, publicEndpoint |-> publicEndpoint, signer |-> Nil,
     method |-> method, peerName |-> "", requestArgUniqueKey |-> NoKey,
     payload |-> args]

NoRequest == ParsedRequest(0, FALSE, Nil, NoCall.args)

Init ==
    /\ lastFetchedPeers = <<PeerA>>
    /\ peersMu = [readers |-> 0, writerWaiting |-> FALSE]
    /\ requestUniqueKeysRLU = <<>>
    /\ shareQueue = <<>>
    /\ archiveQueue = <<>>
    /\ duplicateRequestsByPeer = [n \in PeerNames |-> 0]
    /\ pc = [h \in Handlers |-> "idle"]
    /\ call = [h \in Handlers |-> NoCall]
    /\ parsedRequest = [h \in Handlers |-> NoRequest]
    /\ ctxDone = [h \in Handlers |-> FALSE]
    /\ ret = [h \in Handlers |-> Pending]
    /\ lruAdded = {}
    /\ shareSent = {}
    /\ archiveSent = {}
    /\ ServerInit
    /\ BlockInit

\* ---------------------------------------------------------------- helpers
SeqToSet(s) == {s[i] : i \in 1..Len(s)}

\* UniqueKey of a payload: a deterministic id of its content fields.
UniqueKey(method, args) == <<method, args.body>>

\* ValidateEthSendBundle, ValidateMevSendBundle, ValidateEthCancelBundle
Validate(args, publicEndpoint) == IF args.valid THEN Success ELSE errValidation


\* Variant of the lookup that never reports a hit.
ContainsNothing(cache, key) == key \in {}

\* lru.Cache.Contains: membership, recency untouched
Contains(cache, key) == key \in SeqToSet(cache)

\* lru.Cache.Add: a present key becomes the most recent; a new key is
\* appended and the least recent one evicted when over capacity
Add(cache, key) ==
    LET without == SelectSeq(cache, LAMBDA k : k # key)
        grown == Append(without, key)
    IN IF Len(grown) > LRUSize THEN Tail(grown) ELSE grown

\* the loop of ValidateSigner: index of the first peer with this address, 0 if none
FirstPeer(peers, signer) ==
    LET hits == {i \in 1..Len(peers) : peers[i].EcdsaPubkeyAddress = signer}
    IN IF hits = {} THEN 0 ELSE CHOOSE i \in hits : \A j \in hits : i <= j




\* Variant of ValidateSigner without the early return for local requests.
ValidateSignerEntryNoEndpoint(req, signer, publicEndpoint) ==
    LET r == [req EXCEPT !.signer = signer]
    IN IF r.signer = FlashbotsSignerAddress
       THEN [next |-> "ok", req |-> [r EXCEPT !.peerName = FlashbotsPeerName]]
       ELSE [next |-> "lock", req |-> r]

\* Variant of ValidateSigner that checks for the Flashbots signer before it
\* checks the endpoint.
ValidateSignerEntryFlashbotsFirst(req, signer, publicEndpoint) ==
    LET r == [req EXCEPT !.signer = signer]
    IN IF r.signer = FlashbotsSignerAddress
       THEN [next |-> "ok", req |-> [r EXCEPT !.peerName = FlashbotsPeerName]]
       ELSE IF ~publicEndpoint
            THEN [next |-> "ok", req |-> r]
            ELSE [next |-> "lock", req |-> r]

\* ------------------------------------------------------- ValidateSigner
\* ValidateSigner up to the read lock: the recovered signer is recorded, a
\* local request and the Flashbots signer return at once ("ok"), any other
\* public request goes on to the peer loop ("lock").
ValidateSignerEntry(req, signer, publicEndpoint) ==
    LET r == [req EXCEPT !.signer = signer]
    IN IF ~publicEndpoint
       THEN [next |-> "ok", req |-> r]
       ELSE IF r.signer = FlashbotsSignerAddress
            THEN [next |-> "ok", req |-> [r EXCEPT !.peerName = FlashbotsPeerName]]
            ELSE [next |-> "lock", req |-> r]


\* Variant of the peer loop that takes the first peer without comparing addresses.
ValidateSignerLoopNoCompare(req, peers) ==
    IF Len(peers) = 0
    THEN [found |-> FALSE, req |-> req]
    ELSE [found |-> TRUE, req |-> [req EXCEPT !.peerName = peers[1].Name]]

\* The peer loop of ValidateSigner, run under the read lock.
ValidateSignerLoop(req, peers) ==
    LET i == FirstPeer(peers, req.signer)
    IN IF i = 0
       THEN [found |-> FALSE, req |-> req]
       ELSE [found |-> TRUE, req |-> [req EXCEPT !.peerName = peers[i].Name]]

\* The read lock is released on the path that found the peer only.
ValidateSignerRelease(mu, found) ==
    IF found THEN [mu EXCEPT !.readers = @ - 1] ELSE mu


\* Variant of the normalisation that keeps a signer the caller supplied.
StampSignerIfMissing(req) ==
    IF ~req.publicEndpoint /\ req.payload.signerField = Nil
    THEN [req EXCEPT !.payload.signerField = req.signer]
    ELSE req

\* --------------------------------------------- the methods after ValidateSigner
\* Each yields the error returned before HandleParsedRequest, or the request
\* handed to HandleParsedRequest.
StampSigner(req) ==
    IF ~req.publicEndpoint
    THEN [req EXCEPT !.payload.signerField = req.signer]
    ELSE req

WithUniqueKey(req) ==
    [req EXCEPT !.requestArgUniqueKey = UniqueKey(req.method, req.payload)]


\* Variant of EthSendBundle that goes on after a validation error.
EthSendBundleRestIgnoreErr(req) ==
    [err |-> Success, req |-> WithUniqueKey(StampSigner(req))]

EthSendBundleRest(req) ==
    LET err == Validate(req.payload, req.publicEndpoint)
    IN IF err # Success
       THEN [err |-> err, req |-> req]
       ELSE [err |-> Success, req |-> WithUniqueKey(StampSigner(req))]

MevSendBundleRest(req) ==
    LET err == Validate(req.payload, req.publicEndpoint)
    IN IF err # Success
       THEN [err |-> err, req |-> req]
       ELSE [err |-> Success, req |-> WithUniqueKey(StampSigner(req))]


\* Variant of EthCancelBundle that sets a unique key like the other methods.
EthCancelBundleRestKeyed(req) ==
    LET err == Validate(req.payload, req.publicEndpoint)
    IN IF err # Success
       THEN [err |-> err, req |-> req]
       ELSE [err |-> Success, req |-> WithUniqueKey(StampSigner(req))]

EthCancelBundleRest(req) ==
    LET err == Validate(req.payload, req.publicEndpoint)
    IN IF err # Success
       THEN [err |-> err, req |-> req]
       ELSE [err |-> Success, req |-> StampSigner(req)]

EthSendRawTransactionRest(req) ==
    [err |-> Success, req |-> WithUniqueKey(req)]


\* Variant of BidSubsidiseBlock without the caller check.
BidSubsidiseBlockRestAnyCaller(req) ==
    [err |-> Success, req |-> WithUniqueKey(req)]

BidSubsidiseBlockRest(req) ==
    IF req.signer # FlashbotsSignerAddress
    THEN [err |-> errSubsidyWrongCaller, req |-> req]
    ELSE [err |-> Success, req |-> WithUniqueKey(req)]

MethodRest(req) ==
    CASE req.method = EthSendBundleMethod -> EthSendBundleRest(req)
      [] req.method = MevSendBundleMethod -> MevSendBundleRest(req)
      [] req.method = EthCancelBundleMethod -> EthCancelBundleRest(req)
      [] req.method = EthSendRawTransactionMethod -> EthSendRawTransactionRest(req)
      [] req.method = BidSubsidiseBlockMethod -> BidSubsidiseBlockRest(req)

\* Where HandleParsedRequest first touches shared state: the dedup lookup
\* when the request has a unique key, the share send otherwise.
HandleEntry(req) ==
    IF req.requestArgUniqueKey # NoKey THEN "Contains" ELSE "shareQueue"

\* The handler goes on after ValidateSigner returned nil.
Proceed(h, req) ==
    LET out == MethodRest(req)
    IN /\ parsedRequest' = [parsedRequest EXCEPT ![h] = out.req]
       /\ IF out.err # Success
          THEN /\ pc' = [pc EXCEPT ![h] = "done"]
               /\ ret' = [ret EXCEPT ![h] = out.err]
          ELSE /\ pc' = [pc EXCEPT ![h] = HandleEntry(out.req)]
               /\ ret' = ret

\* A method is called: the ParsedRequest is built and ValidateSigner starts.
Enter(h, method, publicEndpoint, signer, args) ==
    LET v == ValidateSignerEntry(ParsedRequest(h, publicEndpoint, method, args),
                                 signer, publicEndpoint)
    IN /\ pc[h] = "idle"
       /\ call' = [call EXCEPT ![h] = [method |-> method, publicEndpoint |-> publicEndpoint,
                                       signer |-> signer, args |-> args]]
       /\ IF v.next = "ok"
          THEN Proceed(h, v.req)
          ELSE /\ parsedRequest' = [parsedRequest EXCEPT ![h] = v.req]
               /\ pc' = [pc EXCEPT ![h] = "RLock"]
               /\ ret' = ret
       /\ UNCHANGED <<serverVars, blockVars>>
       /\ UNCHANGED <<lastFetchedPeers, peersMu, requestUniqueKeysRLU, shareQueue,
                      archiveQueue, duplicateRequestsByPeer, ctxDone,
                      lruAdded, shareSent, archiveSent>>

EthSendBundle(h) ==
    \E publicEndpoint \in BOOLEAN, signer \in Signers, args \in SignedArgs :
        Enter(h, EthSendBundleMethod, publicEndpoint, signer, args)

MevSendBundle(h) ==
    \E publicEndpoint \in BOOLEAN, signer \in Signers, args \in SignedArgs :
        Enter(h, MevSendBundleMethod, publicEndpoint, signer, args)

EthCancelBundle(h) ==
    \E publicEndpoint \in BOOLEAN, signer \in Signers, args \in SignedArgs :
        Enter(h, EthCancelBundleMethod, publicEndpoint, signer, args)

EthSendRawTransaction(h) ==
    \E publicEndpoint \in BOOLEAN, signer \in Signers, args \in PlainArgs :
        Enter(h, EthSendRawTransactionMethod, publicEndpoint, signer, args)


\* Variant of BidSubsidiseBlock without the endpoint check.
BidSubsidiseBlockEndpointAny(publicEndpoint) == Success

\* On the local surface the method returns before anything else is done.
BidSubsidiseBlockEndpoint(publicEndpoint) ==
    IF ~publicEndpoint THEN errSubsidyWrongEndpoint ELSE Success

BidSubsidiseBlock(h) ==
    \E publicEndpoint \in BOOLEAN, signer \in Signers, args \in PlainArgs :
        IF BidSubsidiseBlockEndpoint(publicEndpoint) # Success
        THEN /\ pc[h] = "idle"
             /\ call' = [call EXCEPT ![h] = [method |-> BidSubsidiseBlockMethod,
                                             publicEndpoint |-> publicEndpoint,
                                             signer |-> signer, args |-> args]]
             /\ pc' = [pc EXCEPT ![h] = "done"]
             /\ ret' = [ret EXCEPT ![h] = BidSubsidiseBlockEndpoint(publicEndpoint)]
             /\ UNCHANGED <<serverVars, blockVars>>
             /\ UNCHANGED <<lastFetchedPeers, peersMu, requestUniqueKeysRLU, shareQueue,
                            archiveQueue, duplicateRequestsByPeer, parsedRequest, ctxDone,
                            lruAdded, shareSent, archiveSent>>
        ELSE Enter(h, BidSubsidiseBlockMethod, publicEndpoint, signer, args)

\* prx.peersMu.RLock(): granted unless a writer waits for or holds the lock
ValidateSignerRLock(h) ==
    /\ pc[h] = "RLock"
    /\ ~peersMu.writerWaiting
    /\ peersMu' = [peersMu EXCEPT !.readers = @ + 1]
    /\ pc' = [pc EXCEPT ![h] = "Loop"]
    /\ UNCHANGED <<serverVars, blockVars>>
    /\ UNCHANGED <<lastFetchedPeers, requestUniqueKeysRLU, shareQueue, archiveQueue,
                   duplicateRequestsByPeer, call, parsedRequest, ctxDone, ret,
                   lruAdded, shareSent, archiveSent>>

\* The loop over prx.lastFetchedPeers and what follows it in ValidateSigner.
ValidateSignerPeers(h) ==
    LET v == ValidateSignerLoop(parsedRequest[h], lastFetchedPeers)
    IN /\ pc[h] = "Loop"
       /\ peersMu' = ValidateSignerRelease(peersMu, v.found)
       /\ IF ~v.found
          THEN /\ pc' = [pc EXCEPT ![h] = "done"]
               /\ ret' = [ret EXCEPT ![h] = errUnknownPeer]
               /\ parsedRequest' = parsedRequest
          ELSE Proceed(h, v.req)
       /\ UNCHANGED <<serverVars, blockVars>>
       /\ UNCHANGED <<lastFetchedPeers, requestUniqueKeysRLU, shareQueue, archiveQueue,
                      duplicateRequestsByPeer, call, ctxDone,
                      lruAdded, shareSent, archiveSent>>


\* -------------------------------------------------- HandleParsedRequest
\* requestUniqueKeysRLU.Contains: a hit counts a duplicate and returns nil
HandleParsedRequestContains(h) ==
    LET req == parsedRequest[h]
    IN /\ pc[h] = "Contains"
       /\ IF Contains(requestUniqueKeysRLU, req.requestArgUniqueKey)
          THEN /\ duplicateRequestsByPeer' =
                      [duplicateRequestsByPeer EXCEPT ![req.peerName] = @ + 1]
               /\ pc' = [pc EXCEPT ![h] = "done"]
               /\ ret' = [ret EXCEPT ![h] = Success]
          ELSE /\ pc' = [pc EXCEPT ![h] = "Add"]
               /\ UNCHANGED <<duplicateRequestsByPeer, ret>>
       /\ UNCHANGED <<serverVars, blockVars>>
       /\ UNCHANGED <<lastFetchedPeers, peersMu, requestUniqueKeysRLU, shareQueue,
                      archiveQueue, call, parsedRequest, ctxDone,
                      lruAdded, shareSent, archiveSent>>

\* requestUniqueKeysRLU.Add after a miss
HandleParsedRequestAdd(h) ==
    /\ pc[h] = "Add"
    /\ requestUniqueKeysRLU' = Add(requestUniqueKeysRLU, parsedRequest[h].requestArgUniqueKey)
    /\ lruAdded' = lruAdded \cup {h}
    /\ pc' = [pc EXCEPT ![h] = "shareQueue"]
    /\ UNCHANGED <<serverVars, blockVars>>
    /\ UNCHANGED <<lastFetchedPeers, peersMu, shareQueue, archiveQueue,
                   duplicateRequestsByPeer, call, parsedRequest, ctxDone, ret,
                   shareSent, archiveSent>>


\* Variant of the select with a default case: a full queue drops the request.
SelectSendOrDrop(queue, req, done) ==
    IF Len(queue) < QueueCap
    THEN {[sent |-> TRUE, queue |-> Append(queue, req)]}
    ELSE {[sent |-> FALSE, queue |-> queue]}


\* Variant of the select that ignores ctx.Done(): a plain blocking send.
SelectSendOnly(queue, req, done) ==
    IF Len(queue) < QueueCap
    THEN {[sent |-> TRUE, queue |-> Append(queue, req)]}
    ELSE {}

\* select { case <-ctx.Done(): case queue <- &parsedRequest: }: the outcomes
\* the select can take now. It blocks while there is none; when both cases
\* are ready either may be taken.
SelectSend(queue, req, done) ==
    {[sent |-> TRUE, queue |-> Append(queue, req)] : x \in {1} \cap {IF Len(queue) < QueueCap THEN 1 ELSE 0}}
    \cup {[sent |-> FALSE, queue |-> queue] : x \in {1} \cap {IF done THEN 1 ELSE 0}}


\* Variant of HandleParsedRequest that returns after the share select.
AfterShareNoArchive(req) == "done"

\* What follows the share select: the archive select for a local request
AfterShare(req) == IF ~req.publicEndpoint THEN "archiveQueue" ELSE "done"

HandleParsedRequestShare(h) ==
    /\ pc[h] = "shareQueue"
    /\ \E o \in SelectSend(shareQueue, parsedRequest[h], ctxDone[h]) :
          /\ shareQueue' = o.queue
          /\ shareSent' = IF o.sent THEN shareSent \cup {h} ELSE shareSent
    /\ pc' = [pc EXCEPT ![h] = AfterShare(parsedRequest[h])]
    /\ ret' = [ret EXCEPT ![h] = IF AfterShare(parsedRequest[h]) = "done" THEN Success ELSE @]
    /\ UNCHANGED <<serverVars, blockVars>>
    /\ UNCHANGED <<lastFetchedPeers, peersMu, requestUniqueKeysRLU, archiveQueue,
                   duplicateRequestsByPeer, call, parsedRequest, ctxDone,
                   lruAdded, archiveSent>>

HandleParsedRequestArchive(h) ==
    /\ pc[h] = "archiveQueue"
    /\ \E o \in SelectSend(archiveQueue, parsedRequest[h], ctxDone[h]) :
          /\ archiveQueue' = o.queue
          /\ archiveSent' = IF o.sent THEN archiveSent \cup {h} ELSE archiveSent
    /\ pc' = [pc EXCEPT ![h] = "done"]
    /\ ret' = [ret EXCEPT ![h] = Success]
    /\ UNCHANGED <<serverVars, blockVars>>
    /\ UNCHANGED <<lastFetchedPeers, peersMu, requestUniqueKeysRLU, shareQueue,
                   duplicateRequestsByPeer, call, parsedRequest, ctxDone,
                   lruAdded, shareSent>>

\* ------------------------------------------------------------ environment
\* The caller of a running handler disconnects: its ctx is cancelled.
Cancel(h) ==
    /\ pc[h] \notin {"idle", "done"}
    /\ ~ctxDone[h]
    /\ ctxDone' = [ctxDone EXCEPT ![h] = TRUE]
    /\ UNCHANGED <<serverVars, blockVars>>
    /\ UNCHANGED <<lastFetchedPeers, peersMu, requestUniqueKeysRLU, shareQueue,
                   archiveQueue, duplicateRequestsByPeer, pc, call, parsedRequest, ret,
                   lruAdded, shareSent, archiveSent>>

\* The refresh task asks for the write lock: from now on new readers wait.
RefreshLock ==
    /\ ~peersMu.writerWaiting
    /\ peersMu' = [peersMu EXCEPT !.writerWaiting = TRUE]
    /\ UNCHANGED <<serverVars, blockVars>>
    /\ UNCHANGED <<lastFetchedPeers, requestUniqueKeysRLU, shareQueue, archiveQueue,
                   duplicateRequestsByPeer, pc, call, parsedRequest, ctxDone, ret,
                   lruAdded, shareSent, archiveSent>>

\* The write lock is granted once no reader holds the lock; the peer list is
\* swapped and the lock released.
RefreshSwap ==
    /\ peersMu.writerWaiting
    /\ peersMu.readers = 0
    /\ \E peers \in PeerLists : lastFetchedPeers' = peers
    /\ peersMu' = [peersMu EXCEPT !.writerWaiting = FALSE]
    /\ UNCHANGED <<serverVars, blockVars>>
    /\ UNCHANGED <<requestUniqueKeysRLU, shareQueue, archiveQueue,
                   duplicateRequestsByPeer, pc, call, parsedRequest, ctxDone, ret,
                   lruAdded, shareSent, archiveSent>>

\* The share worker takes the next request off shareQueue.
ShareWorker ==
    /\ shareQueue # <<>>
    /\ shareQueue' = Tail(shareQueue)
    /\ UNCHANGED <<serverVars, blockVars>>
    /\ UNCHANGED <<lastFetchedPeers, peersMu, requestUniqueKeysRLU, archiveQueue,
                   duplicateRequestsByPeer, pc, call, parsedRequest, ctxDone, ret,
                   lruAdded, shareSent, archiveSent>>

\* The archive worker takes the next request off archiveQueue.
ArchiveWorker ==
    /\ archiveQueue # <<>>
    /\ archiveQueue' = Tail(archiveQueue)
    /\ UNCHANGED <<serverVars, blockVars>>
    /\ UNCHANGED <<lastFetchedPeers, peersMu, requestUniqueKeysRLU, shareQueue,
                   duplicateRequestsByPeer, pc, call, parsedRequest, ctxDone, ret,
                   lruAdded, shareSent, archiveSent>>

HandlerStep(h) ==
    \/ EthSendBundle(h)
    \/ MevSendBundle(h)
    \/ EthCancelBundle(h)
    \/ EthSendRawTransaction(h)
    \/ BidSubsidiseBlock(h)
    \/ ValidateSignerRLock(h)
    \/ ValidateSignerPeers(h)
    \/ HandleParsedRequestContains(h)
    \/ HandleParsedRequestAdd(h)
    \/ HandleParsedRequestShare(h)
    \/ HandleParsedRequestArchive(h)

Next ==
    \/ \E h \in Handlers : HandlerStep(h)
    \/ \E h \in Handlers : Cancel(h)
    \/ RefreshLock
    \/ RefreshSwap
    \/ ShareWorker
    \/ ArchiveWorker

Spec == Init /\ [][Next]_vars



\* ------------------------------------------------- StartReceiverServers
\* The three go statements: each goroutine enters ListenAndServe(TLS).
StartServers ==
    /\ mainPc = "start"
    /\ srv' = [s \in Servers |-> "serving"]
    /\ mainPc' = "spawned"
    /\ UNCHANGED <<srvClosed, errCh, startErr, loggerOn, logged, stopPc, queuesClosed>>
    /\ UNCHANGED <<proxyVars, blockVars>>

\* ListenAndServe returns an error that is not http.ErrServerClosed.
ListenAndServeError(s) ==
    /\ srv[s] = "serving"
    /\ ~srvClosed[s]
    /\ srv' = [srv EXCEPT ![s] = "failed"]
    /\ UNCHANGED <<srvClosed, errCh, mainPc, startErr, loggerOn, logged, stopPc,
                   queuesClosed>>
    /\ UNCHANGED <<proxyVars, blockVars>>

\* ListenAndServe returns http.ErrServerClosed after Close: the goroutine ends.
ListenAndServeClosed(s) ==
    /\ srv[s] = "serving"
    /\ srvClosed[s]
    /\ srv' = [srv EXCEPT ![s] = "exited"]
    /\ UNCHANGED <<srvClosed, errCh, mainPc, startErr, loggerOn, logged, stopPc,
                   queuesClosed>>
    /\ UNCHANGED <<proxyVars, blockVars>>

\* errCh <- err on the unbuffered channel: handed to StartReceiverServers if
\* it waits in its select, and otherwise the sender blocks until a receiver
\* (the select, or the logging goroutine) takes it.
ErrChSend(s) ==
    /\ srv[s] = "failed"
    /\ \/ /\ mainPc = "select"
          /\ mainPc' = "failed"
          /\ startErr' = s
          /\ srv' = [srv EXCEPT ![s] = "exited"]
          /\ UNCHANGED <<errCh, logged>>
       \/ /\ mainPc # "select"
          /\ errCh' = Append(errCh, s)
          /\ srv' = [srv EXCEPT ![s] = "sending"]
          /\ UNCHANGED <<mainPc, startErr, logged>>
    /\ UNCHANGED <<srvClosed, loggerOn, stopPc, queuesClosed>>
    /\ UNCHANGED <<proxyVars, blockVars>>

SelectErrChNever(waiting) == FALSE

\* case err := <-errCh is ready when the select is evaluated
SelectErrCh(waiting) == waiting # <<>>

\* StartReceiverServers reaches its select: a blocked sender is received at
\* once (the timer has only just been created), otherwise it waits.
StartSelect ==
    /\ mainPc = "spawned"
    /\ IF SelectErrCh(errCh)
       THEN /\ mainPc' = "failed"
            /\ startErr' = Head(errCh)
            /\ errCh' = Tail(errCh)
            /\ srv' = [srv EXCEPT ![Head(errCh)] = "exited"]
       ELSE /\ mainPc' = "select"
            /\ UNCHANGED <<startErr, errCh, srv>>
    /\ UNCHANGED <<srvClosed, loggerOn, logged, stopPc, queuesClosed>>
    /\ UNCHANGED <<proxyVars, blockVars>>

\* case <-time.After(100ms): the logging goroutine is started and the
\* servers are returned.
TimeAfter ==
    /\ mainPc = "select"
    /\ mainPc' = "running"
    /\ loggerOn' = TRUE
    /\ UNCHANGED <<srv, srvClosed, errCh, startErr, logged, stopPc, queuesClosed>>
    /\ UNCHANGED <<proxyVars, blockVars>>

\* The logging goroutine receives a blocked sender's error and logs it.
LoggerReceive ==
    /\ loggerOn
    /\ errCh # <<>>
    /\ logged' = logged \cup {Head(errCh)}
    /\ srv' = [srv EXCEPT ![Head(errCh)] = "exited"]
    /\ errCh' = Tail(errCh)
    /\ UNCHANGED <<srvClosed, mainPc, startErr, loggerOn, stopPc, queuesClosed>>
    /\ UNCHANGED <<proxyVars, blockVars>>

\* ------------------------------------------- ReceiverProxyServers.Stop
StopOrderProxyFirst == <<"proxy", "publicServer", "localServer", "certServer">>

\* the statements of Stop, in program order
StopOrder == <<"publicServer", "localServer", "certServer", "proxy">>

\* s.proxy.Stop(): closes the share queue and the archive queue
ProxyStop == queuesClosed' = TRUE

\* One statement of Stop; Stop needs the servers StartReceiverServers returned.
Stop ==
    /\ mainPc = "running"
    /\ stopPc < Len(StopOrder)
    /\ stopPc' = stopPc + 1
    /\ LET t == StopOrder[stopPc + 1]
       IN IF t \in Servers
          THEN /\ srvClosed' = [srvClosed EXCEPT ![t] = TRUE]
               /\ UNCHANGED queuesClosed
          ELSE /\ ProxyStop
               /\ UNCHANGED srvClosed
    /\ UNCHANGED <<srv, errCh, mainPc, startErr, loggerOn, logged>>
    /\ UNCHANGED <<proxyVars, blockVars>>

ServerNext ==
    \/ StartServers
    \/ \E s \in Servers : ListenAndServeError(s)
    \/ \E s \in Servers : ListenAndServeClosed(s)
    \/ \E s \in Servers : ErrChSend(s)
    \/ StartSelect
    \/ TimeAfter
    \/ LoggerReceive
    \/ Stop

ServerSpec == Init /\ [][ServerNext]_vars


\* ---------------------------------------------------- BlockNumberSource
\* time.Since(t)
Since(t) == now - t

StaleAtTTL(age) == age >= CacheTTL

\* time.Since(bs.cacheTimestamp) > time.Second*3
Stale(age) == age > CacheTTL

\* sync.RWMutex: RLock returns when no writer holds the lock or waits for it
RLockReady == ~cacheMu.writer /\ \A c \in Callers : bpc[c] # "Lock"

RLock(mu) == [mu EXCEPT !.readers = @ + 1]

RUnlock(mu) == [mu EXCEPT !.readers = @ - 1]

StaleKeepsRLock(mu) == mu

\* bs.cacheMu.RUnlock() before the update
StaleRUnlock(mu) == RUnlock(mu)

\* BlockNumber: RLock and the staleness test
BlockNumber(c) ==
    /\ bpc[c] = "idle"
    /\ RLockReady
    /\ cacheMu' = RLock(cacheMu)
    /\ bpc' = [bpc EXCEPT ![c] = IF Stale(Since(cacheTimestamp)) THEN "stale" ELSE "read"]
    /\ bret' = [bret EXCEPT ![c] = NoReturn]
    /\ UNCHANGED <<cacheTimestamp, cachedNumber, now, upstream, numberHex>>
    /\ UNCHANGED <<proxyVars, serverVars>>

\* BlockNumber, stale: RUnlock, then UpdateCachedBlockNumber is called
BlockNumberStale(c) ==
    /\ bpc[c] = "stale"
    /\ cacheMu' = StaleRUnlock(cacheMu)
    /\ bpc' = [bpc EXCEPT ![c] = "CallFor"]
    /\ UNCHANGED <<cacheTimestamp, cachedNumber, now, upstream, numberHex, bret>>
    /\ UNCHANGED <<proxyVars, serverVars>>

\* UpdateCachedBlockNumber: bs.client.CallFor(eth_blockNumber) fails, and
\* BlockNumber returns 0, err
CallForError(c) ==
    /\ bpc[c] = "CallFor"
    /\ bret' = [bret EXCEPT ![c] = [err |-> TRUE, number |-> 0]]
    /\ bpc' = [bpc EXCEPT ![c] = "idle"]
    /\ UNCHANGED <<cacheMu, cacheTimestamp, cachedNumber, now, upstream, numberHex>>
    /\ UNCHANGED <<proxyVars, serverVars>>

\* UpdateCachedBlockNumber: CallFor answers the upstream's block number
CallFor(c) ==
    /\ bpc[c] = "CallFor"
    /\ numberHex' = [numberHex EXCEPT ![c] = upstream]
    /\ bpc' = [bpc EXCEPT ![c] = "Lock"]
    /\ UNCHANGED <<cacheMu, cacheTimestamp, cachedNumber, now, upstream, bret>>
    /\ UNCHANGED <<proxyVars, serverVars>>

\* UpdateCachedBlockNumber: bs.cacheMu.Lock()
UpdateLock(c) ==
    /\ bpc[c] = "Lock"
    /\ cacheMu.readers = 0
    /\ ~cacheMu.writer
    /\ cacheMu' = [cacheMu EXCEPT !.writer = TRUE]
    /\ bpc' = [bpc EXCEPT ![c] = "write"]
    /\ UNCHANGED <<cacheTimestamp, cachedNumber, now, upstream, numberHex, bret>>
    /\ UNCHANGED <<proxyVars, serverVars>>

\* UpdateCachedBlockNumber: the two assignments and Unlock
UpdateCachedBlockNumber(c) ==
    /\ bpc[c] = "write"
    /\ cacheTimestamp' = now
    /\ cachedNumber' = numberHex[c]
    /\ cacheMu' = [cacheMu EXCEPT !.writer = FALSE]
    /\ numberHex' = [numberHex EXCEPT ![c] = 0]
    /\ bpc' = [bpc EXCEPT ![c] = "RLock"]
    /\ UNCHANGED <<now, upstream, bret>>
    /\ UNCHANGED <<proxyVars, serverVars>>

\* BlockNumber: RLock again after the update
BlockNumberRLock(c) ==
    /\ bpc[c] = "RLock"
    /\ RLockReady
    /\ cacheMu' = RLock(cacheMu)
    /\ bpc' = [bpc EXCEPT ![c] = "read"]
    /\ UNCHANGED <<cacheTimestamp, cachedNumber, now, upstream, numberHex, bret>>
    /\ UNCHANGED <<proxyVars, serverVars>>

\* BlockNumber: res := bs.cachedNumber, RUnlock, return res, nil
BlockNumberReturn(c) ==
    /\ bpc[c] = "read"
    /\ bret' = [bret EXCEPT ![c] = [err |-> FALSE, number |-> cachedNumber]]
    /\ cacheMu' = RUnlock(cacheMu)
    /\ bpc' = [bpc EXCEPT ![c] = "idle"]
    /\ UNCHANGED <<cacheTimestamp, cachedNumber, now, upstream, numberHex>>
    /\ UNCHANGED <<proxyVars, serverVars>>

\* a second passes
Tick ==
    /\ now < MaxTime
    /\ now' = now + 1
    /\ UNCHANGED <<cacheMu, cacheTimestamp, cachedNumber, upstream, bpc, numberHex, bret>>
    /\ UNCHANGED <<proxyVars, serverVars>>

\* the upstream chain grows by a block
NewBlock ==
    /\ upstream < MaxBlock
    /\ upstream' = upstream + 1
    /\ UNCHANGED <<cacheMu, cacheTimestamp, cachedNumber, now, bpc, numberHex, bret>>
    /\ UNCHANGED <<proxyVars, serverVars>>

BlockNext ==
    \/ \E c \in Callers : BlockNumber(c)
    \/ \E c \in Callers : BlockNumberStale(c)
    \/ \E c \in Callers : CallForError(c)
    \/ \E c \in Callers : CallFor(c)
    \/ \E c \in Callers : UpdateLock(c)
    \/ \E c \in Callers : UpdateCachedBlockNumber(c)
    \/ \E c \in Callers : BlockNumberRLock(c)
    \/ \E c \in Callers : BlockNumberReturn(c)
    \/ Tick
    \/ NewBlock

BlockSpec == Init /\ [][BlockNext]_vars

\* ------------------------------------------------------------------ claims
KnownPeer(peers, signer) == \E i \in 1..Len(peers) : peers[i].EcdsaPubkeyAddress = signer

Untouched(h) == h \notin lruAdded \cup shareSent \cup archiveSent

\* C1: on the public surface a request of any of the five methods whose signer
\* is not the Flashbots address is decided by the loop over the current peer
\* set, and when no peer has that address the handler returns UnknownPeer
\* without inserting into the dedup cache or sending on either queue.
C1_UnknownPeerRejected ==
    [][\A h \in Handlers :
         /\ (pc[h] = "idle" /\ pc'[h] # "idle" /\ call'[h].publicEndpoint
               /\ call'[h].signer # FlashbotsSignerAddress)
            => pc'[h] = "RLock"
         /\ pc[h] = "RLock" => pc'[h] \in {"RLock", "Loop"}
         /\ (pc[h] = "Loop" /\ pc'[h] # "Loop"
               /\ ~KnownPeer(lastFetchedPeers, call[h].signer))
            => /\ pc'[h] = "done"
               /\ ret'[h] = errUnknownPeer
               /\ UNCHANGED <<requestUniqueKeysRLU, shareQueue, archiveQueue>>
         /\ ret[h] = errUnknownPeer => (ret'[h] = errUnknownPeer /\ Untouched(h)')
      ]_vars

C1_Witness ==
    /\ ret[1] = errUnknownPeer /\ call[1].method = BidSubsidiseBlockMethod
    /\ ret[2] = errUnknownPeer /\ call[2].method = EthSendRawTransactionMethod

SameKey(g, h) ==
    /\ parsedRequest[g].requestArgUniqueKey # NoKey
    /\ parsedRequest[g].requestArgUniqueKey = parsedRequest[h].requestArgUniqueKey

Duplicates == duplicateRequestsByPeer[""] + duplicateRequestsByPeer[FlashbotsPeerName]
              + duplicateRequestsByPeer[PeerA.Name] + duplicateRequestsByPeer[PeerB.Name]

\* C2 as stated: of two handled requests with the same fingerprint, whatever
\* the interleaving of their handlers, at most one is sent on the share queue
\* and the other is counted as a duplicate, while the fingerprint is cached.
C2_AtMostOnePerFingerprint ==
    \A g, h \in Handlers :
        (g # h /\ SameKey(g, h) /\ pc[g] = "done" /\ pc[h] = "done"
           /\ ret[g] = Success /\ ret[h] = Success
           /\ parsedRequest[g].requestArgUniqueKey \in SeqToSet(requestUniqueKeysRLU))
        => (~(g \in shareSent /\ h \in shareSent) /\ Duplicates >= 1)

\* C2 amended: a request whose dedup lookup runs after another request with the
\* same fingerprint was inserted, and while that fingerprint is still cached,
\* is sent on neither queue, increments the duplicate metric of its peer and
\* returns success. (Two handlers that both look up before either inserts are
\* both sent.)
C2_LaterLookupIsDuplicate ==
    [][\A h \in Handlers :
         (/\ pc[h] = "Contains" /\ pc'[h] # "Contains"
          /\ \E g \in lruAdded \ {h} : SameKey(g, h)
          /\ parsedRequest[h].requestArgUniqueKey \in SeqToSet(requestUniqueKeysRLU))
         => /\ pc'[h] = "done"
            /\ ret'[h] = Success
            /\ duplicateRequestsByPeer' =
                 [duplicateRequestsByPeer EXCEPT ![parsedRequest[h].peerName] = @ + 1]
            /\ UNCHANGED <<requestUniqueKeysRLU, shareQueue, archiveQueue>>
            /\ Untouched(h)'
      ]_vars

C2_Witness ==
    /\ pc[1] = "done" /\ pc[2] = "done" /\ SameKey(1, 2)
    /\ call[1].publicEndpoint /\ ~call[2].publicEndpoint
    /\ 1 \in shareSent /\ 1 \in lruAdded
    /\ Untouched(2) /\ ret[2] = Success
    /\ duplicateRequestsByPeer[""] = 1

PublicSubsidy(h) ==
    call[h].method = BidSubsidiseBlockMethod /\ call[h].publicEndpoint

\* C4 as stated: a public bid_subsidiseBlock from any signer other than the
\* Flashbots address, known peer or not, returns SubsidyWrongCaller.
C4_WrongCallerForAnyOtherSigner ==
    \A h \in Handlers :
        (PublicSubsidy(h) /\ call[h].signer # FlashbotsSignerAddress /\ pc[h] = "done")
        => ret[h] = errSubsidyWrongCaller

\* C4 amended: a public bid_subsidiseBlock from a signer other than the
\* Flashbots address returns SubsidyWrongCaller when the signer is a known
\* peer and UnknownPeer when it is not; in both cases nothing is inserted or
\* enqueued, and only a request signed by the Flashbots address is ever sent
\* on the share queue.
C4_SubsidyOnlyFromFlashbots ==
    [][\A h \in Handlers :
         /\ (PublicSubsidy(h) /\ pc[h] = "Loop" /\ pc'[h] # "Loop")
            => /\ pc'[h] = "done"
               /\ ret'[h] = IF KnownPeer(lastFetchedPeers, call[h].signer)
                            THEN errSubsidyWrongCaller ELSE errUnknownPeer
         /\ (PublicSubsidy(h)' /\ call'[h].signer # FlashbotsSignerAddress)
            => (Untouched(h)' /\ ret'[h] \in {Pending, errSubsidyWrongCaller, errUnknownPeer})
         /\ (PublicSubsidy(h)' /\ pc'[h] = "done" /\ ret'[h] = Success)
            => call'[h].signer = FlashbotsSignerAddress
         /\ \A i \in 1..Len(shareQueue') :
               shareQueue'[i].method = BidSubsidiseBlockMethod
               => shareQueue'[i].signer = FlashbotsSignerAddress
      ]_vars

C4_Witness ==
    /\ PublicSubsidy(1) /\ ret[1] = errSubsidyWrongCaller
    /\ PublicSubsidy(2) /\ call[2].signer = FlashbotsSignerAddress /\ 2 \in shareSent

\* C5: a bid_subsidiseBlock call on the local surface returns
\* SubsidyWrongEndpoint for every signer, before ValidateSigner records a
\* signer, and inserts nothing into the dedup cache and sends on no queue.
C5_LocalSubsidyWrongEndpoint ==
    \A h \in Handlers :
        (call[h].method = BidSubsidiseBlockMethod /\ ~call[h].publicEndpoint)
        => /\ pc[h] = "done"
           /\ ret[h] = errSubsidyWrongEndpoint
           /\ parsedRequest[h] = NoRequest
           /\ Untouched(h)

C5_Witness ==
    /\ call[1].method = BidSubsidiseBlockMethod /\ ~call[1].publicEndpoint
    /\ call[1].signer = FlashbotsSignerAddress
    /\ ret[1] = errSubsidyWrongEndpoint
    /\ call[2].method = BidSubsidiseBlockMethod /\ ~call[2].publicEndpoint
    /\ call[2].signer # FlashbotsSignerAddress
    /\ ret[2] = errSubsidyWrongEndpoint

\* A handler that returned success and was not suppressed as a duplicate.
AcceptedNonDuplicate(h) ==
    /\ pc[h] = "done" /\ ret[h] = Success
    /\ (parsedRequest[h].requestArgUniqueKey = NoKey \/ h \in lruAdded)

NoPublicInArchive ==
    \A i \in 1..Len(archiveQueue) : ~archiveQueue[i].publicEndpoint

\* C6 as stated: every accepted, non-duplicate local request was sent on both
\* queues; a public one is never sent on the archive queue.
C6_LocalOnBothQueues ==
    /\ \A h \in Handlers :
          AcceptedNonDuplicate(h)
          => IF call[h].publicEndpoint
             THEN h \notin archiveSent
             ELSE h \in shareSent /\ h \in archiveSent
    /\ NoPublicInArchive

\* C6 amended: every accepted, non-duplicate local request whose cancellation
\* signal did not fire was sent on both queues, and every such public request
\* on the share queue; a public request is never sent on the archive queue.
\* (A cancelled request can be missing from either queue.)
C6_UncancelledLocalOnBothQueues ==
    /\ \A h \in Handlers :
          /\ (AcceptedNonDuplicate(h) /\ ~ctxDone[h])
             => (h \in shareSent /\ (~call[h].publicEndpoint => h \in archiveSent))
          /\ call[h].publicEndpoint => h \notin archiveSent
    /\ NoPublicInArchive

C6_Witness ==
    /\ AcceptedNonDuplicate(1) /\ ~call[1].publicEndpoint /\ ~ctxDone[1]
    /\ 1 \in shareSent /\ 1 \in archiveSent
    /\ AcceptedNonDuplicate(2) /\ call[2].publicEndpoint /\ ~ctxDone[2]
    /\ 2 \in shareSent /\ 2 \notin archiveSent

\* C7: an eth_cancelBundle request never has a unique key and its handler
\* never looks up or inserts into the dedup cache; every accepted cancellation
\* whose caller did not disconnect is sent on the share queue, also when an
\* identical one was handled before.
C7_CancelNeverDeduplicated ==
    /\ \A h \in Handlers :
          call[h].method = EthCancelBundleMethod
          => /\ parsedRequest[h].requestArgUniqueKey = NoKey
             /\ pc[h] \notin {"Contains", "Add"}
             /\ h \notin lruAdded
             /\ (pc[h] = "done" /\ ret[h] = Success /\ ~ctxDone[h]) => h \in shareSent
    /\ (\A h \in Handlers : call[h].method \in {EthCancelBundleMethod, Nil})
       => (requestUniqueKeysRLU = <<>> /\ Duplicates = 0)

C7_Witness ==
    /\ call[1].method = EthCancelBundleMethod /\ call[1] = call[2]
    /\ pc[1] = "done" /\ pc[2] = "done"
    /\ 1 \in shareSent /\ 2 \in shareSent

\* C8 as stated: once the cancellation signal has fired before the request
\* was pushed, the request is placed on neither queue.
C8_CancelledNeverSent ==
    [][\A h \in Handlers :
         (ctxDone[h] /\ h \notin shareSent \cup archiveSent)
         => h \notin shareSent' \cup archiveSent'
      ]_vars

\* C8 amended: a cancelled request is dropped from a queue that is full when
\* its select runs, but may still be sent on a queue that has room (both
\* cases of the select are ready then); a handler at a queue send whose
\* request is cancelled is never blocked: its select can be taken at once,
\* cancellation is never withdrawn, and it returns success.
C8_CancelledHandlerTerminates ==
    /\ [][\A h \in Handlers :
            /\ (ctxDone[h] /\ pc[h] = "shareQueue" /\ Len(shareQueue) >= QueueCap
                  /\ pc'[h] # "shareQueue")
               => (h \notin shareSent' /\ shareQueue' = shareQueue)
            /\ (ctxDone[h] /\ pc[h] = "archiveQueue" /\ Len(archiveQueue) >= QueueCap
                  /\ pc'[h] # "archiveQueue")
               => (h \notin archiveSent' /\ archiveQueue' = archiveQueue)
            /\ ctxDone[h] => ctxDone'[h]
            /\ (ctxDone[h] /\ pc[h] \in {"shareQueue", "archiveQueue"} /\ pc'[h] = "done")
               => ret'[h] = Success
         ]_vars
    /\ [](\A h \in Handlers :
            ctxDone[h]
            => /\ pc[h] = "shareQueue" => ENABLED HandleParsedRequestShare(h)
               /\ pc[h] = "archiveQueue" => ENABLED HandleParsedRequestArchive(h))

C8_Witness ==
    /\ pc[1] = "done" /\ ret[1] = Success /\ ctxDone[1]
    /\ ~call[1].publicEndpoint /\ 1 \in lruAdded
    /\ 1 \notin shareSent /\ 1 \notin archiveSent
    /\ Len(shareQueue) = QueueCap /\ Len(archiveQueue) = QueueCap
    /\ shareQueue[1].id = 2 /\ archiveQueue[1].id = 2

\* The requests that reached a queue: those in the queues now and those of
\* the handlers that sent on one.
Queued ==
    SeqToSet(shareQueue) \cup SeqToSet(archiveQueue)
    \cup {parsedRequest[h] : h \in shareSent \cup archiveSent}

\* C9: in every request that reached a queue, peerName is non-empty exactly
\* for public requests; it is "flashbots" when the signer is the Flashbots
\* address, otherwise the name of a peer whose address is the signer, and it
\* is empty for local requests. The signer is the one recovered for the call.
C9_PeerNameTagging ==
    \A q \in Queued :
        /\ q.signer = call[q.id].signer
        /\ q.publicEndpoint = call[q.id].publicEndpoint
        /\ (q.peerName # "") <=> q.publicEndpoint
        /\ (q.publicEndpoint /\ q.signer = FlashbotsSignerAddress)
           => q.peerName = FlashbotsPeerName
        /\ (q.publicEndpoint /\ q.signer # FlashbotsSignerAddress)
           => \E p \in {PeerA, PeerB} :
                 p.EcdsaPubkeyAddress = q.signer /\ p.Name = q.peerName

C9_Witness ==
    /\ 1 \in shareSent /\ parsedRequest[1].peerName = PeerB.Name
    /\ 2 \in shareSent /\ parsedRequest[2].peerName = ""
    /\ parsedRequest[2].signer = FlashbotsSignerAddress

SignerFieldMethods == {EthSendBundleMethod, MevSendBundleMethod, EthCancelBundleMethod}

\* C10: in every eth_sendBundle, mev_sendBundle and eth_cancelBundle request
\* that reached a queue, the signer field of the payload is the signer
\* recovered for the call when the request is local, whatever the caller
\* supplied, and the value the caller supplied when the request is public.
C10_LocalSignerStamped ==
    \A q \in Queued :
        q.method \in SignerFieldMethods
        => q.payload.signerField =
              IF q.publicEndpoint THEN call[q.id].args.signerField ELSE call[q.id].signer

C10_Witness ==
    /\ Len(shareQueue) = 1 /\ shareQueue[1].id = 1
    /\ ~call[1].publicEndpoint /\ call[1].method = MevSendBundleMethod
    /\ call[1].args.signerField = "0xOTHER"
    /\ shareQueue[1].payload.signerField = call[1].signer
    /\ 2 \in shareSent /\ call[2].publicEndpoint
    /\ call[2].method = EthCancelBundleMethod
    /\ parsedRequest[2].payload.signerField = "0xOTHER"

Errors == {errUnknownPeer, errSubsidyWrongEndpoint, errSubsidyWrongCaller, errValidation}
InHandleParsedRequest == {"Contains", "Add", "shareQueue", "archiveQueue"}

\* The call passes the checks made after ValidateSigner: semantic validation
\* and, for bid_subsidiseBlock, the caller check.
PassesValidation(c) ==
    /\ c.args.valid
    /\ c.method = BidSubsidiseBlockMethod => c.signer = FlashbotsSignerAddress

\* C11: a handler that returns UnknownPeer, SubsidyWrongEndpoint,
\* SubsidyWrongCaller or a validation failure leaves the dedup cache, the
\* duplicate metric and both queues as they were, and a call that fails
\* validation always ends that way; a request that passed authentication and
\* validation enters HandleParsedRequest, from which the only return is success.
C11_ErrorsLeaveNoTrace ==
    [][\A h \in Handlers :
         /\ (ret[h] = Pending /\ ret'[h] \in Errors)
            => /\ UNCHANGED <<requestUniqueKeysRLU, shareQueue, archiveQueue,
                              duplicateRequestsByPeer>>
               /\ pc'[h] = "done"
         /\ ret'[h] \in Errors => Untouched(h)'
         /\ ret[h] \in Errors => ret'[h] = ret[h]
         /\ (pc'[h] = "done" /\ ~PassesValidation(call'[h])) => ret'[h] \in Errors
         /\ (pc[h] = "idle" /\ pc'[h] # "idle" /\ PassesValidation(call'[h])
               /\ call'[h].method # BidSubsidiseBlockMethod
               /\ ~call'[h].publicEndpoint)
            => pc'[h] \in InHandleParsedRequest
         /\ (pc[h] = "idle" /\ pc'[h] # "idle" /\ PassesValidation(call'[h])
               /\ call'[h].publicEndpoint /\ call'[h].signer = FlashbotsSignerAddress)
            => pc'[h] \in InHandleParsedRequest
         /\ (pc[h] = "Loop" /\ pc'[h] # "Loop" /\ PassesValidation(call[h])
               /\ KnownPeer(lastFetchedPeers, call[h].signer))
            => pc'[h] \in InHandleParsedRequest
         /\ pc[h] \in InHandleParsedRequest
            => /\ pc'[h] \in InHandleParsedRequest \cup {"done"}
               /\ ret'[h] = IF pc'[h] = "done" THEN Success ELSE Pending
      ]_vars

C11_Witness ==
    /\ ret[1] = errValidation /\ call[1].method = MevSendBundleMethod
    /\ Untouched(1)
    /\ ret[2] = Success /\ 2 \in lruAdded /\ 2 \notin shareSent /\ ctxDone[2]
    /\ Len(shareQueue) = 0

\* C12: a call on the local surface is never sent through the peer loop and
\* never returns UnknownPeer, whatever its signer and the peer set; the
\* signer recovered for the call is the signer of its ParsedRequest.
C12_LocalNoAllowList ==
    \A h \in Handlers :
        (pc[h] # "idle" /\ ~call[h].publicEndpoint)
        => /\ ret[h] # errUnknownPeer
           /\ pc[h] \notin {"RLock", "Loop"}
           /\ call[h].method # BidSubsidiseBlockMethod
              => parsedRequest[h].signer = call[h].signer

C12_Witness ==
    /\ ~call[1].publicEndpoint /\ call[1].signer = PeerB.EcdsaPubkeyAddress
    /\ lastFetchedPeers = <<PeerA>>
    /\ 1 \in shareSent /\ 1 \in archiveSent /\ ret[1] = Success
    /\ parsedRequest[1].signer = PeerB.EcdsaPubkeyAddress
    /\ call[2].publicEndpoint /\ call[2].signer = PeerB.EcdsaPubkeyAddress
    /\ ret[2] = errUnknownPeer

\* C14: every read lock ValidateSigner takes on peersMu is released: the
\* readers holding the lock are exactly the handlers inside the peer loop.
C14_ReadLockReleased ==
    peersMu.readers = Cardinality({h \in Handlers : pc[h] = "Loop"})

\* C15: a fingerprint is in the dedup cache only if a request with that
\* fingerprint was sent on the share queue: once every handler that inserted
\* a cached fingerprint has returned, one of them has sent its request.
C15_CachedOnlyIfShared ==
    \A i \in 1..Len(requestUniqueKeysRLU) :
        LET adders == {h \in lruAdded :
                         parsedRequest[h].requestArgUniqueKey = requestUniqueKeysRLU[i]}
        IN (\A h \in adders : pc[h] = "done") => adders \cap shareSent # {}

\* C16: every request sent on the archive queue was also sent on the share queue.
C16_ArchivedOnlyIfShared == archiveSent \subseteq shareSent

\* C13: StartReceiverServers fails, returning the error and no servers, when
\* a server reports an error before the 100 ms timer fires (an error sent
\* before the select is reached, or while the select waits); when the timer
\* fires first the start has succeeded for good, and every error sent later
\* can be received by the logging goroutine, is logged when received, and
\* changes neither the result of the start nor anything Stop does.
C13_StartFailsOrLogs ==
    /\ [][/\ (mainPc = "spawned" /\ errCh # <<>> /\ mainPc' # mainPc)
                => (mainPc' = "failed" /\ startErr' = Head(errCh))
          /\ \A s \in Servers :
                (mainPc = "select" /\ srv[s] = "failed" /\ srv'[s] # "failed")
                    => (mainPc' = "failed" /\ startErr' = s)
          /\ (mainPc # "running" /\ mainPc' = "running")
                => (errCh = <<>> /\ startErr' = NoServer /\ loggerOn'
                    /\ \A s \in Servers : srv[s] \in {"serving", "failed"})
          /\ mainPc = "running" => (mainPc' = "running" /\ startErr' = NoServer)
          /\ mainPc = "failed" => (mainPc' = "failed" /\ startErr' = startErr)
          /\ \A s \in Servers :
                (mainPc = "running" /\ srv[s] = "sending" /\ srv'[s] # "sending")
                    => /\ s \in logged'
                       /\ UNCHANGED <<stopPc, queuesClosed, srvClosed>>]_vars
    /\ [](mainPc = "failed" => (startErr \in Servers /\ ~loggerOn /\ stopPc = 0))
    /\ []((mainPc = "running" /\ errCh # <<>>) => ENABLED LoggerReceive)

C13_Witness ==
    /\ mainPc = "failed"
    /\ startErr = "certServer"
    /\ srv["publicServer"] = "sending"
    /\ srv["localServer"] = "serving"

\* C17: the queues are closed only after Close was called on the public, the
\* local and the cert server: in every state with the queues closed all
\* three servers are closed, and the step that closes the queues starts
\* from a state where they already are.
C17_ServersClosedBeforeQueues ==
    /\ [][(~queuesClosed /\ queuesClosed') => \A s \in Servers : srvClosed[s]]_vars
    /\ [](queuesClosed => \A s \in Servers : srvClosed[s])

C17_Witness ==
    /\ queuesClosed
    /\ stopPc = Len(StopOrder)
    /\ \A s \in Servers : srvClosed[s]
    /\ srv["publicServer"] = "exited"
    /\ "localServer" \in logged

\* C18: a call of BlockNumber made when the cache is at most CacheTTL
\* seconds old goes straight to reading the cached number and returns it
\* without an upstream call; a call made when it is older, or never fetched,
\* releases the read lock and calls the upstream first; the cached number is
\* read only on the fresh path or after the caller's own successful update,
\* so a value returned without error was written by a successful fetch and
\* is never the initial zero.
C18_ReadThroughCache ==
    [][\A c \in Callers :
        /\ (bpc[c] = "idle" /\ bpc'[c] # "idle")
              => bpc'[c] = IF now - cacheTimestamp <= CacheTTL THEN "read" ELSE "stale"
        /\ bpc[c] = "stale" => bpc'[c] \in {"stale", "CallFor"}
        /\ (bpc[c] # "read" /\ bpc'[c] = "read") => bpc[c] \in {"idle", "RLock"}
        /\ (bpc[c] # "RLock" /\ bpc'[c] = "RLock")
              => (bpc[c] = "write" /\ cacheTimestamp' = now /\ cachedNumber' = numberHex[c])
        /\ (bpc[c] # "Lock" /\ bpc'[c] = "Lock")
              => (bpc[c] = "CallFor" /\ numberHex'[c] = upstream)
        /\ (bpc[c] = "read" /\ bpc'[c] = "idle")
              => /\ bret'[c] = [err |-> FALSE, number |-> cachedNumber]
                 /\ cacheTimestamp # ZeroTime
                 /\ cachedNumber # 0]_vars

C18_Witness ==
    /\ bpc[1] = "read"
    /\ now - cacheTimestamp = CacheTTL
    /\ cachedNumber = 1
    /\ upstream = 2
    /\ bret[2] = [err |-> FALSE, number |-> 1]
    /\ bpc[2] = "idle"

\* C19: when the upstream call fails BlockNumber returns an error with the
\* cached number, the cache timestamp and the lock unchanged; the lock is
\* held by exactly the callers that are between an RLock and its RUnlock or
\* between Lock and Unlock, so a caller that has returned holds nothing and
\* no lock is released twice or left held.
C19_ErrorLeavesCacheAndLocks ==
    /\ [][\A c \in Callers :
            (bpc[c] = "CallFor" /\ bpc'[c] = "idle")
                => /\ bret'[c].err
                   /\ UNCHANGED <<cachedNumber, cacheTimestamp, cacheMu>>]_vars
    /\ [](/\ cacheMu.readers = Cardinality({c \in Callers : bpc[c] \in {"stale", "read"}})
          /\ cacheMu.writer = (\E c \in Callers : bpc[c] = "write")
          /\ Cardinality({c \in Callers : bpc[c] = "write"}) <= 1
          /\ \A c \in Callers : bret[c].err => bret[c].number = 0)

C19_Witness ==
    /\ bpc[1] = "idle"
    /\ bret[1] = [err |-> TRUE, number |-> 0]
    /\ bpc[2] = "idle"
    /\ bret[2] = [err |-> FALSE, number |-> 2]
    /\ cachedNumber = 2
    /\ cacheMu = [readers |-> 0, writer |-> FALSE]
    /\ now - cacheTimestamp > CacheTTL

\* C20: with an upstream whose block number never decreases, the cached
\* block number never decreases.
C20_CachedNumberNeverDecreases == [][cachedNumber' >= cachedNumber]_vars

\* C21: once StartReceiverServers has returned an error nothing of the
\* start is left: no server is still serving, and no server goroutine is
\* about to block or blocked in errCh <- err.
C21_FailedStartLeavesNothing ==
    mainPc = "failed" => \A s \in Servers : srv[s] \notin {"serving", "failed", "sending"}

====
